---- MODULE Spec2Model ----
(***************************************************************************)
(* Model of src/main.js (Akkuma/slcsp): the CSV table parser, the query    *)
(* filter, the join key mapper, the sheet merger and the run() pipeline.   *)
(*                                                                         *)
(* Representation of JavaScript values:                                    *)
(*   string      a sequence of characters, "a,b" is <<"a", ",", "b">>; a    *)
(*               character is a one-character string, or the name of its   *)
(*               code point ("U+00A0") when TLA+ cannot write it           *)
(*   undefined   the one-element sequence Undefined, equal to no string    *)
(*   object      a plain object: the sequence of its own <<key, value>>    *)
(*               properties in the order Object.keys lists them (array     *)
(*               index keys ascending, then the others as inserted); the   *)
(*               properties of Object.prototype are inherited              *)
(*   array       a sequence                                                *)
(*   reference   objects that are shared and mutated (table records,       *)
(*               merged rows) are named by a reference into sheet or heap  *)
(***************************************************************************)
EXTENDS Integers, Sequences, FiniteSets, TLC

VARIABLES
  fArg,      \* filter spec: the filterSets argument, [given, val]
  fRow,      \* filter spec: the record the predicate is applied to
  fOp,       \* filter spec: which predicate was applied last
  fResult,   \* filter spec: what it returned
  src,       \* parser -> the lines its source holds, or source missing
  filt,      \* parser -> the filterSets argument of its parseCSV call
  pos,       \* parser -> number of 'line' events delivered so far
  sheet,     \* table id -> the sheet object { headers, rows }
  promise,   \* parser -> state of the promise parseCSV returned
  resolvedWith, \* parser -> copy of the sheet at the moment of resolution
  proc,      \* the node process: "running", "crashed" or "done"
  steps,     \* the sheetQueries argument of mergeSheets
  mpc,       \* mergeSheets: "idle", "reduce" (in the reduce) or "threw"
  mi,        \* mergeSheets: index of the next sheetQuery of the reduce
  acc,       \* mergeSheets: the accumulator { headers, rows }
  heap,      \* the merged row objects created so far, by reference
  prevSheet, \* mergeSheets: index of the previous sheetQuery, 0 = undefined
  returned,  \* the value of the last merged sheet returned, if any
  rpc,       \* run(): "await", "merge", "map", "done", "rejected"; or "off"
  ri,        \* run(): index of the next merged row of the rate-selection map
  out        \* the lines written to process.stdout

filterVars == <<fArg, fRow, fOp, fResult>>
parseVars == <<src, filt, pos, promise, resolvedWith, proc>>
mergeVars == <<steps, mpc, mi, acc, heap, prevSheet, returned>>
runVars == <<rpc, ri, out>>
vars == <<filterVars, parseVars, sheet, mergeVars, runVars>>

----------------------------------------------------------------------------
(* JavaScript values *)

\* the value undefined; no string over one-character elements equals it
Undefined == <<"undefined">>

\* String(undefined), the property name an undefined key is converted to
UndefinedKey == <<"u", "n", "d", "e", "f", "i", "n", "e", "d">>

\* an omitted optional argument / an argument that was passed
Absent == [given |-> FALSE, val |-> <<>>]
Given(v) == [given |-> TRUE, val |-> v]

Digits == <<"0", "1", "2", "3", "4", "5", "6", "7", "8", "9">>
IsDigit(c) == \E i \in 1..10 : Digits[i] = c
DigitVal(c) == (CHOOSE i \in 1..10 : Digits[i] = c) - 1

\* the property names every plain object inherits from Object.prototype
ProtoKey == <<"_", "_", "p", "r", "o", "t", "o", "_", "_">>
ObjectPrototypeKeys ==
  { <<"c", "o", "n", "s", "t", "r", "u", "c", "t", "o", "r">>,
    <<"_", "_", "p", "r", "o", "t", "o", "_", "_">>,
    <<"h", "a", "s", "O", "w", "n", "P", "r", "o", "p", "e", "r", "t", "y">>,
    <<"i", "s", "P", "r", "o", "t", "o", "t", "y", "p", "e", "O", "f">>,
    <<"p", "r", "o", "p", "e", "r", "t", "y", "I", "s", "E", "n", "u", "m", "e", "r", "a", "b", "l", "e">>,
    <<"t", "o", "L", "o", "c", "a", "l", "e", "S", "t", "r", "i", "n", "g">>,
    <<"t", "o", "S", "t", "r", "i", "n", "g">>,
    <<"v", "a", "l", "u", "e", "O", "f">>,
    <<"_", "_", "d", "e", "f", "i", "n", "e", "G", "e", "t", "t", "e", "r", "_", "_">>,
    <<"_", "_", "d", "e", "f", "i", "n", "e", "S", "e", "t", "t", "e", "r", "_", "_">>,
    <<"_", "_", "l", "o", "o", "k", "u", "p", "G", "e", "t", "t", "e", "r", "_", "_">>,
    <<"_", "_", "l", "o", "o", "k", "u", "p", "S", "e", "t", "t", "e", "r", "_", "_">> }

\* the function or object Object.prototype holds under an inherited name: the
\* same value for every plain object, equal to no string and not undefined
ProtoValue(key) == <<"Object.prototype">> \o key

\* Object.prototype.hasOwnProperty
HasOwn(obj, key) == \E i \in 1..Len(obj) : obj[i][1] = key

\* obj[key]: the own property, else the one inherited from Object.prototype,
\* else undefined
Get(obj, key) ==
  IF HasOwn(obj, key)
  THEN LET i == CHOOSE j \in 1..Len(obj) : obj[j][1] = key IN obj[i][2]
  ELSE IF key \in ObjectPrototypeKeys THEN ProtoValue(key)
  ELSE Undefined

\* an array index: a canonical decimal string of value at most 2^32 - 2
MaxArrayIndex == <<"4", "2", "9", "4", "9", "6", "7", "2", "9", "4">>
DigitsLess(a, b) ==
  \/ Len(a) < Len(b)
  \/ /\ Len(a) = Len(b)
     /\ \E i \in 1..Len(a) :
          /\ DigitVal(a[i]) < DigitVal(b[i])
          /\ \A j \in 1..(i - 1) : a[j] = b[j]
IsArrayIndex(key) ==
  /\ key # <<>>
  /\ \A i \in 1..Len(key) : IsDigit(key[i])
  /\ Len(key) = 1 \/ key[1] # "0"
  /\ ~DigitsLess(MaxArrayIndex, key)

\* CreateDataProperty, as an object literal's computed key and its spread do:
\* an existing own property keeps its place; a new array index key goes among
\* the array index keys in ascending order, any other new key goes last
Define(obj, key, val) ==
  IF HasOwn(obj, key)
  THEN [i \in 1..Len(obj) |-> IF obj[i][1] = key THEN <<key, val>> ELSE obj[i]]
  ELSE IF IsArrayIndex(key)
       THEN LET n == Cardinality({ i \in 1..Len(obj) :
                       IsArrayIndex(obj[i][1]) /\ DigitsLess(obj[i][1], key) })
            IN SubSeq(obj, 1, n) \o << <<key, val>> >> \o SubSeq(obj, n + 1, Len(obj))
       ELSE Append(obj, <<key, val>>)

\* obj[key] = val: as Define, except that assigning to "__proto__" runs the
\* setter of Object.prototype and creates no own property (a string is
\* ignored, an object becomes the prototype; no code reads through it)
Put(obj, key, val) ==
  IF key = ProtoKey /\ ~HasOwn(obj, key) THEN obj ELSE Define(obj, key, val)

\* Object.keys(obj)
Keys(obj) == [i \in 1..Len(obj) |-> obj[i][1]]

\* arr[i] for a 1-based index: undefined outside the array
At(arr, i) == IF i \in 1..Len(arr) THEN arr[i] ELSE Undefined

\* a property name: undefined is converted to the string "undefined"
ToKey(v) == IF v = Undefined THEN UndefinedKey ELSE v

----------------------------------------------------------------------------
(* Query filter, src/main.js:73-75 *)

\* a faulty every: one matching pair is enough (Array.prototype.some)
everyAsSome(filterSet, i, row) ==
  \E k \in i..Len(filterSet) : Get(row, filterSet[k][1]) = filterSet[k][2]

\* Array.prototype.every over the pairs of one filter set, left to right,
\* stopping at the first pair that fails
RECURSIVE every(_, _, _)
every(filterSet, i, row) ==
  IF i > Len(filterSet) THEN TRUE
  ELSE IF Get(row, filterSet[i][1]) = filterSet[i][2]
       THEN every(filterSet, i + 1, row)
       ELSE FALSE

\* Array.prototype.some over the filter sets, left to right, stopping at the
\* first filter set that is satisfied
RECURSIVE some(_, _, _)
some(filterSets, i, row) ==
  IF i > Len(filterSets) THEN FALSE
  ELSE IF every(filterSets[i], 1, row)
       THEN TRUE
       ELSE some(filterSets, i + 1, row)

\* createQueryFilter(filterSets)(row)
createQueryFilter(filterSets, row) == some(filterSets, 1, row)

\* trueFn
trueFn(row) == TRUE

\* a faulty parseFilter: an empty filterSets list is taken as no filter
parseFilterEmptyIsFalsy(arg, row) ==
  IF arg.given /\ arg.val # <<>>
  THEN createQueryFilter(arg.val, row)
  ELSE trueFn(row)

\* the filter parseCSV builds from its filterSets argument (line 24); an array
\* is truthy even when empty, so only an omitted argument gives trueFn
parseFilter(arg, row) ==
  IF arg.given THEN createQueryFilter(arg.val, row) ELSE trueFn(row)

\* filterRowObj(filter)(row): the row, or undefined when the filter rejects it
filterRowObj(arg, row) == IF parseFilter(arg, row) THEN Given(row) ELSE Absent

\* createSimpleFilterSets(key, val)
createSimpleFilterSets(key, val) == << << <<key, val>> >> >>

\* the outcome of a call: a value, or a TypeError thrown
Ok(v) == [threw |-> FALSE, val |-> v]
TypeError == [threw |-> TRUE, val |-> <<>>]

\* a faulty createJoinMapper: a column the row lacks gives no pair
createJoinMapperSkipMissing(joins, row) ==
  IF ~joins.given THEN TypeError
  ELSE Ok(SelectSeq([i \in 1..Len(joins.val) |->
                       <<joins.val[i], Get(row, joins.val[i])>>],
                    LAMBDA pair : pair[2] # Undefined))

\* createJoinMapper(joins)(row), joins being the joins property of a
\* sheetQuery: joins.map throws a TypeError when the property is undefined
createJoinMapper(joins, row) ==
  IF ~joins.given THEN TypeError
  ELSE Ok([i \in 1..Len(joins.val) |-> <<joins.val[i], Get(row, joins.val[i])>>])

----------------------------------------------------------------------------
(* Lines, src/main.js:27-28 and 43 *)

\* WhiteSpace and LineTerminator code points, all of which trim removes
IsSpace(c) ==
  c \in { "\t", "\n", "U+000B", "\f", "\r", " ", "U+00A0", "U+1680",
          "U+2000", "U+2001", "U+2002", "U+2003", "U+2004", "U+2005",
          "U+2006", "U+2007", "U+2008", "U+2009", "U+200A", "U+2028",
          "U+2029", "U+202F", "U+205F", "U+3000", "U+FEFF" }

\* String.prototype.trim
RECURSIVE trimStart(_)
trimStart(s) ==
  IF s # <<>> /\ IsSpace(Head(s)) THEN trimStart(Tail(s)) ELSE s

RECURSIVE trimEnd(_)
trimEnd(s) ==
  IF s # <<>> /\ IsSpace(s[Len(s)])
  THEN trimEnd(SubSeq(s, 1, Len(s) - 1))
  ELSE s

trim(s) == trimEnd(trimStart(s))

\* String.prototype.split(','): always at least one field, no quoting
RECURSIVE splitFrom(_, _, _, _)
splitFrom(s, i, cur, fields) ==
  IF i > Len(s) THEN Append(fields, cur)
  ELSE IF s[i] = ","
       THEN splitFrom(s, i + 1, <<>>, Append(fields, cur))
       ELSE splitFrom(s, i + 1, Append(cur, s[i]), fields)

split(s) == splitFrom(s, 1, <<>>, <<>>)

\* convertRowToObj(headers, row): row.reduce assigning acc[headers[i]] = val
RECURSIVE convertFrom(_, _, _, _)
convertFrom(headers, row, i, obj) ==
  IF i > Len(row) THEN obj
  ELSE convertFrom(headers, row, i + 1, Put(obj, ToKey(At(headers, i)), row[i]))

convertRowToObj(headers, row) == convertFrom(headers, row, 1, <<>>)

----------------------------------------------------------------------------
(* Table parser, src/main.js:18-40 *)

\* const sheet = { headers: [], rows: [] }
NewSheet == [headers |-> <<>>, rows |-> <<>>]

\* a faulty 'line' handler: a kept row is put in front of the rows
onLineUnshift(sh, arg, line) ==
  LET row == split(trim(line))
  IN IF Len(sh.headers) > 0
     THEN LET rowObj == filterRowObj(arg, convertRowToObj(sh.headers, row))
          IN IF rowObj.given
             THEN [sh EXCEPT !.rows = <<rowObj.val>> \o @]
             ELSE sh
     ELSE [sh EXCEPT !.headers = row]

\* the 'line' handler (lines 26-37) applied to the parser's own sheet
onLine(sh, arg, line) ==
  LET trimmed == trim(line)
      row == split(trimmed)
  IN IF Len(sh.headers) > 0
     THEN LET rowObj == filterRowObj(arg, convertRowToObj(sh.headers, row))
          IN IF rowObj.given
             THEN [sh EXCEPT !.rows = Append(@, rowObj.val)]
             ELSE sh
     ELSE [sh EXCEPT !.headers = row]

\* a source that exists holds lines; one that cannot be opened holds none
File(lines) == [exists |-> TRUE, lines |-> lines]
Missing == [exists |-> FALSE, lines |-> <<>>]

\* readline delivers the next line of parser p's source to its 'line' handler
Line(p) ==
  /\ proc = "running"
  /\ src[p].exists
  /\ promise[p] = "pending"
  /\ pos[p] < Len(src[p].lines)
  /\ pos' = [pos EXCEPT ![p] = @ + 1]
  /\ sheet' = [sheet EXCEPT ![p] = onLine(@, filt[p], src[p].lines[pos[p] + 1])]
  /\ UNCHANGED <<src, filt, promise, resolvedWith, proc>>
  /\ UNCHANGED <<filterVars, mergeVars, runVars>>

\* readline reaches the end of parser p's source: 'close' resolves the promise
\* with the sheet object (line 39)
Close(p) ==
  /\ proc = "running"
  /\ src[p].exists
  /\ promise[p] = "pending"
  /\ pos[p] = Len(src[p].lines)
  /\ promise' = [promise EXCEPT ![p] = "resolved"]
  /\ resolvedWith' = [resolvedWith EXCEPT ![p] = sheet[p]]
  /\ UNCHANGED <<src, filt, pos, sheet, proc>>
  /\ UNCHANGED <<filterVars, mergeVars, runVars>>

\* the read stream of parser p cannot open its source: it emits 'error', for
\* which parseCSV registers no listener and no rejection of its promise (the
\* executor at line 39 takes no reject function); node raises the unhandled
\* 'error' event as an uncaught exception and the process ends
OpenError(p) ==
  /\ proc = "running"
  /\ ~src[p].exists
  /\ promise[p] = "pending"
  /\ proc' = "crashed"
  /\ UNCHANGED <<src, filt, pos, sheet, promise, resolvedWith>>
  /\ UNCHANGED <<filterVars, mergeVars, runVars>>

\* const acc = { headers: {}, rows: [] }, the initial value of the reduce
NewAcc == [headers |-> <<>>, rows |-> <<>>]

----------------------------------------------------------------------------
(* Sheet merger, src/main.js:82-118 *)

\* a table record is shared by reference: <<table id, index in its rows>>
Deref(ref) == sheet[ref[1]].rows[ref[2]]

\* what a merged row holds under a step name: one record (the seed step,
\* not an array) or an array of records (Array.isArray)
Single(ref) == [isArray |-> FALSE, refs |-> <<ref>>]
List(refs) == [isArray |-> TRUE, refs |-> refs]

\* a sheetQuery { sheet, joins, name }
JoinStep(t, joins, name) == [sheet |-> t, joins |-> joins, name |-> name]

\* sheet.rows.filter(filter): the records of table t the filter accepts, in
\* row order
RECURSIVE filterFrom(_, _, _, _)
filterFrom(t, filterSets, i, kept) ==
  IF i > Len(sheet[t].rows) THEN kept
  ELSE filterFrom(t, filterSets, i + 1,
         IF createQueryFilter(filterSets, sheet[t].rows[i])
         THEN Append(kept, <<t, i>>)
         ELSE kept)

\* the filter sets of the mapped join keys, or the TypeError of the first
\* mapping that threw
Collect(mapped) ==
  IF \E j \in 1..Len(mapped) : mapped[j].threw THEN TypeError
  ELSE Ok([j \in 1..Len(mapped) |-> mapped[j].val])

\* a faulty joinFilterSets: only the first previous record gives a filter set
joinFilterSetsFirstOnly(prev, v) ==
  IF v.refs = <<>> THEN Ok(<<>>)
  ELSE Collect(<< createJoinMapper(prev.joins, Deref(v.refs[1])) >>)

\* lines 100-107: the filter sets built from what the row holds under the
\* previous step's name, one filter set per previous record (none, and no
\* call of the join mapper, for an empty array)
joinFilterSets(prev, v) ==
  IF v.isArray
  THEN Collect([j \in 1..Len(v.refs) |->
                  createJoinMapper(prev.joins, Deref(v.refs[j]))])
  ELSE Collect(<< createJoinMapper(prev.joins, Deref(v.refs[1])) >>)

\* lines 98-110: { ...row, [name]: sheet.rows.filter(filter) }, or the
\* TypeError thrown while the filter is built
joinRow(row, prev, cur) ==
  LET fs == joinFilterSets(prev, Get(row, prev.name))
  IN IF fs.threw THEN TypeError
     ELSE Ok(Define(row, cur.name, List(filterFrom(cur.sheet, fs.val, 1, <<>>))))

\* line 91: sheet.rows.map(_ => ({[name]: _})), one new object per record
seedStep(hp, cur) ==
  LET n == Len(sheet[cur.sheet].rows)
  IN [heap |-> hp \o [i \in 1..n |->
                        Define(<<>>, cur.name, Single(<<cur.sheet, i>>))],
      rows |-> [i \in 1..n |-> Len(hp) + i]]

\* the outcome of acc.rows.map over the joined rows: the callback's first
\* TypeError ends the map, the objects made before it stay unreferenced
MapOutcome(hp, rows, joined) ==
  IF \E i \in 1..Len(joined) : joined[i].threw
  THEN LET n == CHOOSE i \in 1..Len(joined) :
                  joined[i].threw /\ \A j \in 1..(i - 1) : ~joined[j].threw
       IN [threw |-> TRUE,
           heap |-> hp \o [i \in 1..(n - 1) |-> joined[i].val],
           rows |-> rows]
  ELSE [threw |-> FALSE,
        heap |-> hp \o [i \in 1..Len(joined) |-> joined[i].val],
        rows |-> [i \in 1..Len(joined) |-> Len(hp) + i]]

\* a faulty joinStep: the new key is added to the previous step's row objects
joinStepInPlace(hp, rows, prev, cur) ==
  LET joined == [i \in 1..Len(rows) |-> joinRow(hp[rows[i]], prev, cur)]
  IN IF \E i \in 1..Len(joined) : joined[i].threw
     THEN MapOutcome(hp, rows, joined)
     ELSE [threw |-> FALSE,
           heap |-> [id \in 1..Len(hp) |->
                       IF \E i \in 1..Len(rows) : rows[i] = id
                       THEN joinRow(hp[id], prev, cur).val
                       ELSE hp[id]],
           rows |-> rows]

\* a faulty joinStep: a row without a match is left out (an inner join)
joinStepInner(hp, rows, prev, cur) ==
  LET joined == [i \in 1..Len(rows) |-> joinRow(hp[rows[i]], prev, cur)]
  IN IF \E i \in 1..Len(joined) : joined[i].threw
     THEN MapOutcome(hp, rows, joined)
     ELSE MapOutcome(hp, rows,
            SelectSeq(joined, LAMBDA r : Get(r.val, cur.name).refs # <<>>))

\* lines 97-111: acc.rows.map(row => ...), one new object per merged row
joinStep(hp, rows, prev, cur) ==
  MapOutcome(hp, rows, [i \in 1..Len(rows) |-> joinRow(hp[rows[i]], prev, cur)])

\* the value of the merged sheet acc, with every reference followed
RowValue(obj) ==
  [k \in 1..Len(obj) |->
     <<obj[k][1],
       [isArray |-> obj[k][2].isArray,
        recs |-> [j \in 1..Len(obj[k][2].refs) |-> Deref(obj[k][2].refs[j])]]>>]
MergedValue ==
  [headers |-> acc.headers,
   rows |-> [i \in 1..Len(acc.rows) |-> RowValue(heap[acc.rows[i]])]]

\* mergeSheets(steps) is called: the reduce starts from { headers: {}, rows: [] }
MergeBegin ==
  /\ mpc \in {"idle", "threw"}
  /\ rpc = "off"
  /\ mpc' = "reduce"
  /\ mi' = 1
  /\ acc' = NewAcc
  /\ heap' = <<>>
  /\ prevSheet' = 0
  /\ UNCHANGED <<steps, returned, sheet, filterVars, parseVars, runVars>>

\* one call of the reducer with prevSheet undefined (lines 85-92, 114)
MergeSeed ==
  /\ mpc = "reduce"
  /\ mi <= Len(steps)
  /\ prevSheet = 0
  /\ LET cur == steps[mi]
         new == seedStep(heap, cur)
     IN /\ acc' = [headers |-> Put(acc.headers, cur.name, sheet[cur.sheet].headers),
                   rows |-> new.rows]
        /\ heap' = new.heap
  /\ prevSheet' = mi
  /\ mi' = mi + 1
  /\ UNCHANGED <<steps, mpc, returned, sheet, filterVars, parseVars, runVars>>

\* one call of the reducer with a previous sheetQuery (lines 85-88, 93-114);
\* a TypeError thrown by the map callback leaves mergeSheets (and rejects
\* run()) after line 88 has stored the headers
MergeJoin ==
  /\ mpc = "reduce"
  /\ mi <= Len(steps)
  /\ prevSheet # 0
  /\ LET cur == steps[mi]
         new == joinStep(heap, acc.rows, steps[prevSheet], cur)
     IN /\ acc' = [headers |-> Put(acc.headers, cur.name, sheet[cur.sheet].headers),
                   rows |-> new.rows]
        /\ heap' = new.heap
        /\ mpc' = IF new.threw THEN "threw" ELSE mpc
        /\ prevSheet' = IF new.threw THEN prevSheet ELSE mi
        /\ mi' = IF new.threw THEN mi ELSE mi + 1
        /\ rpc' = IF new.threw /\ rpc = "merge" THEN "rejected" ELSE rpc
  /\ UNCHANGED <<steps, returned, sheet, filterVars, parseVars, ri, out>>

\* the reduce has consumed every sheetQuery: mergeSheets returns acc; inside
\* run() the rate-selection map follows (line 146)
MergeReturn ==
  /\ mpc = "reduce"
  /\ mi > Len(steps)
  /\ mpc' = "idle"
  /\ returned' = Given(MergedValue)
  /\ rpc' = IF rpc = "merge" THEN "map" ELSE rpc
  /\ ri' = 1
  /\ UNCHANGED <<steps, mi, acc, heap, prevSheet, out, sheet, filterVars, parseVars>>

\* values of the variables a specification does not use
FilterIdle ==
  /\ fArg = Absent /\ fRow = <<>> /\ fOp = "none" /\ fResult = FALSE
ParseIdle ==
  /\ src = <<>> /\ filt = <<>> /\ pos = <<>> /\ promise = <<>>
  /\ resolvedWith = <<>> /\ proc = "running"
MergeIdle ==
  /\ steps = <<>> /\ mpc = "idle" /\ mi = 0 /\ acc = NewAcc /\ heap = <<>>
  /\ prevSheet = 0 /\ returned = Absent
RunIdle ==
  /\ rpc = "off" /\ ri = 0 /\ out = <<>>

----------------------------------------------------------------------------
(* The run() pipeline, src/main.js:130-169 *)

\* the string literals of run()
StrZipcode == <<"z", "i", "p", "c", "o", "d", "e">>
StrRate == <<"r", "a", "t", "e">>
StrRateArea == <<"r", "a", "t", "e", "_", "a", "r", "e", "a">>
StrState == <<"s", "t", "a", "t", "e">>
StrMetalLevel == <<"m", "e", "t", "a", "l", "_", "l", "e", "v", "e", "l">>
StrSilver == <<"S", "i", "l", "v", "e", "r">>
StrSlcsp == <<"s", "l", "c", "s", "p">>
StrZips == <<"z", "i", "p", "s">>
StrPlans == <<"p", "l", "a", "n", "s">>

\* slcsp.csv: the header "zipcode,rate" and the lines "1," and "2,"
SlcspHeader ==
  <<"z", "i", "p", "c", "o", "d", "e", ",", "r", "a", "t", "e">>
SlcspZip1 == <<"1", ",">>
SlcspZip2 == <<"2", ",">>

\* plans.csv: the header and plans of state M, "p,M,Silver,2.675,3" and so on
PlansHeader ==
  <<"p", "l", "a", "n", "_", "i", "d", ",", "s", "t", "a", "t", "e",
  ",", "m", "e", "t", "a", "l", "_", "l", "e", "v", "e", "l", ",", "r",
  "a", "t", "e", ",", "r", "a", "t", "e", "_", "a", "r", "e", "a">>
PlanSilverHigh == <<"p", ",", "M", ",", "S", "i", "l", "v", "e", "r", ",", "2", ".", "6", "7", "5", ",", "3">>
PlanSilverLow == <<"q", ",", "M", ",", "S", "i", "l", "v", "e", "r", ",", "1", ",", "3">>
PlanSilverSame == <<"r", ",", "M", ",", "S", "i", "l", "v", "e", "r", ",", "2", ".", "6", "7", "5", ",", "3">>
PlanGold == <<"g", ",", "M", ",", "G", "o", "l", "d", ",", "0", ".", "5", ",", "3">>

\* zips.csv: the header and zip code 1 in rate area 3 or 4 of state M
ZipsHeader ==
  <<"z", "i", "p", "c", "o", "d", "e", ",", "s", "t", "a", "t", "e",
  ",", "c", "o", "u", "n", "t", "y", "_", "c", "o", "d", "e", ",", "n",
  "a", "m", "e", ",", "r", "a", "t", "e", "_", "a", "r", "e", "a">>
ZipArea3 == <<"1", ",", "M", ",", "c", ",", "n", ",", "3">>
ZipArea4 == <<"1", ",", "M", ",", "d", ",", "n", ",", "4">>
ZipOther == <<"2", ",", "M", ",", "c", ",", "n", ",", "4">>

\* process.stdout ends every line with os.EOL
EOL == <<"\n">>

\* Numbers are IEEE-754 binary64 values.  Their arithmetic is exact on
\* natural numbers of any size: the little-endian sequence of the limbs of
\* the number in base 10^4, without leading zero limbs (0 is <<>>)
Base == 10000
BigZero == <<>>
BigOne == <<1>>

RECURSIVE BigTrim(_)
BigTrim(a) ==
  IF a # <<>> /\ a[Len(a)] = 0 THEN BigTrim(SubSeq(a, 1, Len(a) - 1)) ELSE a

\* the sign of a - b
RECURSIVE BigCmpFrom(_, _, _)
BigCmpFrom(a, b, i) ==
  IF i = 0 THEN 0
  ELSE IF a[i] < b[i] THEN -1
  ELSE IF a[i] > b[i] THEN 1
  ELSE BigCmpFrom(a, b, i - 1)
BigCmp(a, b) ==
  IF Len(a) < Len(b) THEN -1
  ELSE IF Len(a) > Len(b) THEN 1
  ELSE BigCmpFrom(a, b, Len(a))

\* a * k + carry for 0 <= k <= 2^14 and a carry below 2^30
RECURSIVE BigMulFrom(_, _, _, _, _)
BigMulFrom(a, k, i, carry, done) ==
  IF i > Len(a)
  THEN IF carry = 0 THEN done ELSE BigMulFrom(a, k, i, carry \div Base, Append(done, carry % Base))
  ELSE LET t == a[i] * k + carry
       IN BigMulFrom(a, k, i + 1, t \div Base, Append(done, t % Base))
BigMulSmall(a, k) == BigTrim(BigMulFrom(a, k, 1, 0, <<>>))
BigAddSmall(a, k) == BigTrim(BigMulFrom(a, 1, 1, k, <<>>))

\* a + b
RECURSIVE BigAddFrom(_, _, _, _, _)
BigAddFrom(a, b, i, carry, done) ==
  IF i > Len(a) /\ i > Len(b)
  THEN IF carry = 0 THEN done ELSE Append(done, carry)
  ELSE LET t == (IF i <= Len(a) THEN a[i] ELSE 0)
                  + (IF i <= Len(b) THEN b[i] ELSE 0) + carry
       IN BigAddFrom(a, b, i + 1, t \div Base, Append(done, t % Base))
BigAdd(a, b) == BigAddFrom(a, b, 1, 0, <<>>)

\* a - b for a >= b
RECURSIVE BigSubFrom(_, _, _, _, _)
BigSubFrom(a, b, i, borrow, done) ==
  IF i > Len(a) THEN done
  ELSE LET t == a[i] - (IF i <= Len(b) THEN b[i] ELSE 0) - borrow
       IN BigSubFrom(a, b, i + 1, IF t < 0 THEN 1 ELSE 0,
                     Append(done, IF t < 0 THEN t + Base ELSE t))
BigSub(a, b) == BigTrim(BigSubFrom(a, b, 1, 0, <<>>))

\* the integer quotient a \div d for 1 <= d <= 2^13
RECURSIVE BigDivFrom(_, _, _, _, _)
BigDivFrom(a, d, i, rem, done) ==
  IF i = 0 THEN done
  ELSE LET t == rem * Base + a[i]
       IN BigDivFrom(a, d, i - 1, t % d, <<t \div d>> \o done)
BigDivSmall(a, d) == BigTrim(BigDivFrom(a, d, Len(a), 0, <<>>))

RECURSIVE Pow(_, _)
Pow(b, e) == IF e = 0 THEN 1 ELSE b * Pow(b, e - 1)

\* a * 2^k and the integer quotient a \div 2^k, thirteen bits at a time
RECURSIVE BigMulPow2(_, _)
BigMulPow2(a, k) ==
  IF k >= 13 THEN BigMulPow2(BigMulSmall(a, 8192), k - 13)
  ELSE BigMulSmall(a, Pow(2, k))
RECURSIVE BigDivPow2(_, _)
BigDivPow2(a, k) ==
  IF k >= 13 THEN BigDivPow2(BigDivSmall(a, 8192), k - 13)
  ELSE BigDivSmall(a, Pow(2, k))

\* a * 10^k
BigMulPow10(a, k) ==
  IF a = <<>> THEN <<>>
  ELSE [i \in 1..(k \div 4) |-> 0] \o BigMulSmall(a, Pow(10, k % 4))

\* the number a sequence of decimal digits writes, the integer a number
\* below 2^31 is, and the decimal digits of a number
BigFromDigits(ds) ==
  LET n == Len(ds)
      Limb(j) == LET hi == n - 4 * (j - 1)
                     D(p) == IF p >= 1 THEN DigitVal(ds[p]) ELSE 0
                 IN D(hi) + 10 * D(hi - 1) + 100 * D(hi - 2) + 1000 * D(hi - 3)
  IN BigTrim([j \in 1..((n + 3) \div 4) |-> Limb(j)])
RECURSIVE BigToInt(_)
BigToInt(a) == IF a = <<>> THEN 0 ELSE a[1] + Base * BigToInt(Tail(a))
RECURSIVE intToStr(_)
intToStr(n) ==
  IF n < 10 THEN <<Digits[n + 1]>>
  ELSE intToStr(n \div 10) \o <<Digits[(n % 10) + 1]>>
BigToDigits(a) ==
  IF a = <<>> THEN <<"0">>
  ELSE LET top == intToStr(a[Len(a)])
           low == [p \in 1..(4 * (Len(a) - 1)) |->
                     LET limb == a[Len(a) - 1 - ((p - 1) \div 4)]
                     IN Digits[((limb \div Pow(10, 3 - ((p - 1) % 4))) % 10) + 1]]
       IN top \o low

\* a number: NaN, an infinity, or the finite binary64 value (-) m * 2^q with
\* m = 0 and q = 0, or 2^52 <= m < 2^53 and MinExp <= q <= MaxExp, or
\* m < 2^52 and q = MinExp (a subnormal)
MinExp == -1074
MaxExp == 971
TwoTo52 == <<496, 2737, 5996, 4503>>
TwoTo53 == <<992, 5474, 1992, 9007>>
NaN == [kind |-> "nan", neg |-> FALSE, m |-> <<>>, q |-> 0]
Inf(neg) == [kind |-> "inf", neg |-> neg, m |-> <<>>, q |-> 0]
Fin(neg, m, q) ==
  IF m = <<>> THEN [kind |-> "fin", neg |-> neg, m |-> <<>>, q |-> 0]
  ELSE IF m = TwoTo53 /\ q + 1 > MaxExp THEN Inf(neg)
  ELSE IF m = TwoTo53 THEN [kind |-> "fin", neg |-> neg, m |-> TwoTo52, q |-> q + 1]
  ELSE IF q > MaxExp THEN Inf(neg)
  ELSE [kind |-> "fin", neg |-> neg, m |-> m, q |-> q]

\* the state [x, y, q] scaled by powers of two until y <= x < 2 * y, with q
\* raised by the exponent y was scaled by and lowered by that of x, for x
\* and y above 0
RECURSIVE Normalize(_)
Normalize(st) ==
  IF BigCmp(st.x, BigMulSmall(st.y, 16384)) >= 0
  THEN Normalize([x |-> st.x, y |-> BigMulSmall(st.y, 8192), q |-> st.q + 13])
  ELSE IF BigCmp(st.x, BigMulSmall(st.y, 2)) >= 0
  THEN Normalize([x |-> st.x, y |-> BigMulSmall(st.y, 2), q |-> st.q + 1])
  ELSE IF BigCmp(BigMulSmall(st.x, 8192), st.y) < 0
  THEN Normalize([x |-> BigMulSmall(st.x, 8192), y |-> st.y, q |-> st.q - 13])
  ELSE IF BigCmp(st.x, st.y) < 0
  THEN Normalize([x |-> BigMulSmall(st.x, 2), y |-> st.y, q |-> st.q - 1])
  ELSE st

\* n more binary digits of x / y are added to m, for x < 2 * y: the state
\* [x, m, n] ends with the digits m and twice the rest x
RECURSIVE Quotient(_, _)
Quotient(st, y) ==
  IF st.n = 0 THEN st
  ELSE IF BigCmp(st.x, y) >= 0
  THEN Quotient([x |-> BigMulSmall(BigSub(st.x, y), 2),
                 m |-> BigAddSmall(BigMulSmall(st.m, 2), 1),
                 n |-> st.n - 1], y)
  ELSE Quotient([x |-> BigMulSmall(st.x, 2),
                 m |-> BigMulSmall(st.m, 2),
                 n |-> st.n - 1], y)

\* the binary64 value nearest to n * 10^e, ties to the even mantissa, for a
\* natural number n
ToDouble(neg, n, e) ==
  LET width == Len(BigToDigits(n)) + e
  IN IF n = <<>> THEN Fin(neg, <<>>, 0)
     ELSE IF width > 310 THEN Inf(neg)
     ELSE IF width < -330 THEN Fin(neg, <<>>, 0)
     ELSE LET a == IF e >= 0 THEN BigMulPow10(n, e) ELSE n
              b == IF e >= 0 THEN BigOne ELSE BigMulPow10(BigOne, 0 - e)
              nrm == Normalize([x |-> a, y |-> BigMulPow2(b, 52), q |-> 0])
              shift == IF nrm.q < MinExp THEN MinExp - nrm.q ELSE 0
          IN IF shift > 53 THEN Fin(neg, <<>>, 0)
             ELSE LET r == Quotient([x |-> nrm.x, m |-> <<>>, n |-> 53 - shift], nrm.y)
                      c == BigCmp(r.x, nrm.y)
                      odd == r.m # <<>> /\ r.m[1] % 2 = 1
                  IN Fin(neg,
                         IF c > 0 \/ (c = 0 /\ odd) THEN BigAddSmall(r.m, 1) ELSE r.m,
                         nrm.q + shift)

StrInfinity == <<"I", "n", "f", "i", "n", "i", "t", "y">>

\* the position after the run of decimal digits of s that starts at i
scanDigits(s, i) ==
  IF \E j \in i..Len(s) : ~IsDigit(s[j])
  THEN CHOOSE j \in i..Len(s) :
         ~IsDigit(s[j]) /\ \A k \in i..(j - 1) : IsDigit(s[k])
  ELSE Len(s) + 1

\* the exponent part of s at position i: its sign and the natural number
\* its digits write, of any size; 0 when there is none
exponentAt(s, i) ==
  IF i <= Len(s) /\ s[i] \in {"e", "E"}
  THEN LET signed == i + 1 <= Len(s) /\ s[i + 1] \in {"+", "-"}
           from == IF signed THEN i + 2 ELSE i + 1
       IN [neg |-> signed /\ s[i + 1] = "-",
           val |-> BigFromDigits(SubSeq(s, from, scanDigits(s, from) - 1))]
  ELSE [neg |-> FALSE, val |-> BigZero]

\* Number.parseFloat: the value of the longest prefix, after leading white
\* space, that is a decimal literal (sign, digits, fraction, exponent, or
\* Infinity), NaN when there is none (undefined reads as "undefined").  The
\* literal with digits n, a fraction of f digits and exponent x is the
\* binary64 value nearest to n * 10^(x - f); an exponent of any size that
\* puts the leading digit above 10^310 gives an infinity and one that puts
\* it below 10^-330 gives zero
parseFloat(v) ==
  IF v = Undefined THEN NaN
  ELSE LET s == trimStart(v)
           signed == s # <<>> /\ s[1] \in {"+", "-"}
           neg == signed /\ s[1] = "-"
           st == IF signed THEN 2 ELSE 1
           ipEnd == scanDigits(s, st)
           dot == ipEnd <= Len(s) /\ s[ipEnd] = "."
           fpEnd == IF dot THEN scanDigits(s, ipEnd + 1) ELSE ipEnd
           ip == SubSeq(s, st, ipEnd - 1)
           fp == IF dot THEN SubSeq(s, ipEnd + 1, fpEnd - 1) ELSE <<>>
           n == BigFromDigits(ip \o fp)
           width == Len(BigToDigits(n))
           x == exponentAt(s, fpEnd)
       IN IF Len(s) >= st + 7 /\ SubSeq(s, st, st + 7) = StrInfinity THEN Inf(neg)
          ELSE IF ip = <<>> /\ fp = <<>> THEN NaN
          ELSE IF n = BigZero THEN Fin(neg, BigZero, 0)
          ELSE IF ~x.neg /\ BigCmp(BigAddSmall(x.val, width),
                                   BigAddSmall(BigZero, Len(fp) + 310)) > 0
          THEN Inf(neg)
          ELSE IF x.neg /\ BigCmp(BigAddSmall(x.val, Len(fp)),
                                  BigAddSmall(BigZero, width + 330)) > 0
          THEN Fin(neg, BigZero, 0)
          ELSE ToDouble(neg, n, (IF x.neg THEN 0 - BigToInt(x.val) ELSE BigToInt(x.val))
                                - Len(fp))

\* the sign of |a| - |b| for finite a and b
compareMagnitude(a, b) ==
  IF a.m = <<>> \/ b.m = <<>>
  THEN IF a.m = b.m THEN 0 ELSE IF a.m = <<>> THEN -1 ELSE 1
  ELSE IF a.q < b.q THEN -1
  ELSE IF a.q > b.q THEN 1
  ELSE BigCmp(a.m, b.m)

\* the sign of a - b as Array.prototype.sort reads it: NaN counts as 0
compareRate(a, b) ==
  LET Sign(x) == IF x.m = <<>> THEN 0 ELSE IF x.neg THEN -1 ELSE 1
  IN IF a.kind = "nan" \/ b.kind = "nan" THEN 0
     ELSE IF a.kind = "inf" /\ b.kind = "inf"
          THEN IF a.neg = b.neg THEN 0 ELSE IF a.neg THEN -1 ELSE 1
     ELSE IF a.kind = "inf" THEN IF a.neg THEN -1 ELSE 1
     ELSE IF b.kind = "inf" THEN IF b.neg THEN 1 ELSE -1
     ELSE IF Sign(a) < Sign(b) THEN -1
     ELSE IF Sign(a) > Sign(b) THEN 1
     ELSE Sign(a) * compareMagnitude(a, b)

\* 10^21 = 7629394531250000 * 2^17
TenTo21 == Fin(FALSE, <<0, 3125, 3945, 7629>>, 17)

\* the decimal digits of a written without the zeros at its end
RECURSIVE stripZeros(_)
stripZeros(ds) ==
  IF Len(ds) > 1 /\ ds[Len(ds)] = "0" THEN stripZeros(SubSeq(ds, 1, Len(ds) - 1))
  ELSE ds

\* the natural number of the fewest significant digits, k or more, that
\* parseFloat reads as the value v = m * 2^q >= 10^21 lying between lo and hi
\* (the bounds count when m is even); of two such numbers the one nearer v
RECURSIVE shortestFrom(_, _, _, _, _)
shortestFrom(v, lo, hi, closed, k) ==
  LET ds == BigToDigits(v)
      n == Len(ds)
      down == BigFromDigits(SubSeq(ds, 1, k) \o [i \in 1..(n - k) |-> "0"])
      up == BigAdd(down, BigMulPow10(BigOne, n - k))
      In(c) == IF closed THEN BigCmp(lo, c) <= 0 /\ BigCmp(c, hi) <= 0
               ELSE BigCmp(lo, c) < 0 /\ BigCmp(c, hi) < 0
      near == BigCmp(BigSub(v, down), BigSub(up, v))
  IN IF k >= n THEN v
     ELSE IF In(down) /\ In(up)
     THEN IF near < 0 THEN down
          ELSE IF near > 0 THEN up
          ELSE IF DigitVal(ds[k]) % 2 = 0 THEN down ELSE up
     ELSE IF In(down) THEN down
     ELSE IF In(up) THEN up
     ELSE shortestFrom(v, lo, hi, closed, k + 1)

\* Number::toString of a finite value of magnitude 10^21 or more, without
\* its sign: the shortest digits that read back as the value, in exponent
\* notation
exponentNotation(x) ==
  LET v == BigMulPow2(x.m, x.q)
      half == BigMulPow2(BigOne, x.q - 1)
      lo == BigSub(v, IF x.m = TwoTo52 THEN BigMulPow2(BigOne, x.q - 2) ELSE half)
      hi == BigAdd(v, half)
      ds == BigToDigits(shortestFrom(v, lo, hi, x.m[1] % 2 = 0, 1))
      sig == stripZeros(ds)
  IN <<sig[1]>> \o (IF Len(sig) > 1 THEN <<".">> \o Tail(sig) ELSE <<>>)
       \o <<"e", "+">> \o intToStr(Len(ds) - 1)

\* Number.prototype.toFixed(2): NaN and the infinities by name; a "-" for a
\* value below zero; a magnitude of 10^21 or more in exponent notation, a
\* smaller one as the integer nearest to 100 times it (the larger of two),
\* with a point before its last two digits
toFixed2(x) ==
  IF x.kind = "nan" THEN <<"N", "a", "N">>
  ELSE IF x.kind = "inf"
       THEN (IF x.neg THEN <<"-">> ELSE <<>>) \o StrInfinity
  ELSE LET sign == IF x.neg /\ x.m # <<>> THEN <<"-">> ELSE <<>>
           scaled == BigMulSmall(x.m, 100)
           n == IF x.q >= 0 THEN BigMulPow2(scaled, x.q)
                ELSE IF 0 - x.q > 62 THEN <<>>
                ELSE BigDivSmall(BigAddSmall(BigDivPow2(scaled, (0 - x.q) - 1), 1), 2)
           ds == BigToDigits(n)
           padded == [i \in 1..(3 - Len(ds)) |-> "0"] \o ds
       IN IF compareMagnitude(x, TenTo21) >= 0 THEN sign \o exponentNotation(x)
          ELSE sign \o SubSeq(padded, 1, Len(padded) - 2) \o <<".">>
                 \o SubSeq(padded, Len(padded) - 1, Len(padded))

\* a template literal's conversion of a value to a string
ToStr(v) == IF v = Undefined THEN UndefinedKey ELSE v

\* Array.prototype.join(',')
RECURSIVE join(_)
join(arr) ==
  IF arr = <<>> THEN <<>>
  ELSE IF Len(arr) = 1 THEN arr[1]
  ELSE arr[1] \o <<",">> \o join(Tail(arr))

\* plan.rate of a plan record held by reference
RateOf(ref) == Get(Deref(ref), StrRate)

\* line 148: a plan is kept when no later plan has the same rate string
dedupeRates(plans) ==
  LET idx == SelectSeq([i \in 1..Len(plans) |-> i],
                       LAMBDA i : ~\E j \in (i + 1)..Len(plans) :
                                     RateOf(plans[j]) = RateOf(plans[i]))
  IN [k \in 1..Len(idx) |-> plans[idx[k]]]

\* line 149: the comparator, on plans paired with the number their rate
\* parses to; the sort reads a NaN result as 0
comparePlans(a, b) == compareRate(a.rate, b.rate)

\* Array.prototype.sort is the engine's merge sort of runs.  Arrays are
\* indexed from 0 as in the engine: the element at index i, the array with
\* v stored at index i, and the array target with len elements of source
\* from index from copied to index to
Elem(arr, i) == arr[i + 1]
Store(arr, i, v) == [arr EXCEPT ![i + 1] = v]
Copy(source, from, target, to, len) ==
  SubSeq(target, 1, to) \o SubSeq(source, from + 1, from + len)
    \o SubSeq(target, to + len + 1, Len(target))

\* the elements of a sequence in reverse order
RECURSIVE Reverse(_)
Reverse(s) ==
  IF Len(s) <= 1 THEN s
  ELSE LET half == Len(s) \div 2
       IN Reverse(SubSeq(s, half + 1, Len(s))) \o Reverse(SubSeq(s, 1, half))

\* the array with the elements from index from up to index to reversed
ReverseRange(arr, from, to) ==
  SubSeq(arr, 1, from) \o Reverse(SubSeq(arr, from + 1, to))
    \o SubSeq(arr, to + 1, Len(arr))

\* the length of the run that starts at lowArg and ends before high: the
\* longest stretch that continues the order of its first two elements,
\* strictly descending or not descending; a descending run is reversed
CountAndMakeRun(work, lowArg, high) ==
  IF lowArg + 1 = high THEN [work |-> work, length |-> 1]
  ELSE LET isDescending == comparePlans(Elem(work, lowArg + 1), Elem(work, lowArg)) < 0
           Breaks(idx) ==
             LET order == comparePlans(Elem(work, idx), Elem(work, idx - 1))
             IN IF isDescending THEN order >= 0 ELSE order < 0
           end == IF \E idx \in (lowArg + 2)..(high - 1) : Breaks(idx)
                  THEN CHOOSE idx \in (lowArg + 2)..(high - 1) :
                         Breaks(idx) /\ \A j \in (lowArg + 2)..(idx - 1) : ~Breaks(j)
                  ELSE high
           runLength == end - lowArg
       IN [work |-> IF isDescending
                    THEN ReverseRange(work, lowArg, lowArg + runLength)
                    ELSE work,
           length |-> runLength]

\* the index, from left up to right, before which the binary search places
\* pivot: after the elements pivot does not compare below
RECURSIVE binarySearch(_, _, _, _)
binarySearch(arr, pivot, left, right) ==
  IF left >= right THEN left
  ELSE LET mid == left + ((right - left) \div 2)
       IN IF comparePlans(pivot, Elem(arr, mid)) < 0
          THEN binarySearch(arr, pivot, left, mid)
          ELSE binarySearch(arr, pivot, mid + 1, right)

\* the elements from st.start up to high are inserted, one by one, at the
\* place the binary search finds among those from low on before them
RECURSIVE insertFrom(_, _, _)
insertFrom(st, low, high) ==
  IF st.start >= high THEN st
  ELSE LET pivot == Elem(st.work, st.start)
           left == binarySearch(st.work, pivot, low, st.start)
       IN insertFrom(
            [work |-> SubSeq(st.work, 1, left) \o <<pivot>>
                        \o SubSeq(st.work, left + 1, st.start)
                        \o SubSeq(st.work, st.start + 2, Len(st.work)),
             start |-> st.start + 1],
            low, high)
BinaryInsertionSort(work, low, startArg, high) ==
  insertFrom([work |-> work, start |-> IF low = startArg THEN startArg + 1 ELSE startArg],
             low, high).work

\* galloping compares key with the elements of a run: an element comes
\* before the key when it compares below it (the key goes left of its
\* equals, GallopLeft) or when the key does not compare below it (right of
\* its equals, GallopRight)
comesBefore(leftmost, elem, key) ==
  IF leftmost THEN comparePlans(elem, key) < 0 ELSE comparePlans(key, elem) >= 0

\* the offsets 1, 3, 7, ... from index from in direction dir are tried while
\* they are below maxOfs and the element there is on the hint's side of key
RECURSIVE gallopOffsets(_, _, _, _, _, _, _, _)
gallopOffsets(leftmost, arr, key, from, dir, maxOfs, lastOfs, offset) ==
  IF offset < maxOfs
       /\ (comesBefore(leftmost, Elem(arr, from + dir * offset), key) = (dir = 1))
  THEN gallopOffsets(leftmost, arr, key, from, dir, maxOfs, offset, 2 * offset + 1)
  ELSE [lastOfs |-> lastOfs, offset |-> IF offset > maxOfs THEN maxOfs ELSE offset]

\* the binary search between the last two offsets tried
RECURSIVE gallopSearch(_, _, _, _, _, _)
gallopSearch(leftmost, arr, key, base, lastOfs, offset) ==
  IF lastOfs >= offset THEN offset
  ELSE LET m == lastOfs + ((offset - lastOfs) \div 2)
       IN IF comesBefore(leftmost, Elem(arr, base + m), key)
          THEN gallopSearch(leftmost, arr, key, base, m + 1, offset)
          ELSE gallopSearch(leftmost, arr, key, base, lastOfs, m)

\* the number of the length elements of arr from base on that the search,
\* started at offset hint, places before key: offsets are tried to the right
\* when the element at the hint comes before key (ahead), else to the left
gallop(leftmost, arr, key, base, length, hint) ==
  LET ahead == comesBefore(leftmost, Elem(arr, base + hint), key)
      g == gallopOffsets(leftmost, arr, key, base + hint,
                         IF ahead THEN 1 ELSE -1,
                         IF ahead THEN length - hint ELSE hint + 1, 0, 1)
  IN gallopSearch(leftmost, arr, key, base,
                  IF ahead THEN g.lastOfs + hint + 1 ELSE hint - g.offset + 1,
                  IF ahead THEN g.offset + hint ELSE hint - g.lastOfs)
GallopLeft(arr, key, base, length, hint) == gallop(TRUE, arr, key, base, length, hint)
GallopRight(arr, key, base, length, hint) == gallop(FALSE, arr, key, base, length, hint)

\* a run must win this many times in a row for the merge to gallop
kMinGallopWins == 7

\* The state of a merge of run A with the run B after it: the work array,
\* the copy temp of the shorter run, the index dest written next, the
\* cursors into temp and into the run left in place, the lengths not yet
\* merged, and the wins in a row.  MergeLow (low) copies A and fills from
\* the front, MergeHigh copies B and fills from the back.
MergeLow(work, minGallop, baseA, lengthA, baseB, lengthB) ==
  [low |-> TRUE, pc |-> "one", first |-> FALSE,
   work |-> Store(work, baseA, Elem(work, baseB)),
   temp |-> SubSeq(work, baseA + 1, baseA + lengthA),
   dest |-> baseA + 1, cursorTemp |-> 0, cursor |-> baseB + 1, baseA |-> baseA,
   lengthA |-> lengthA, lengthB |-> lengthB - 1,
   minGallop |-> minGallop, nofWinsA |-> 0, nofWinsB |-> 0]
MergeHigh(work, minGallop, baseA, lengthA, baseB, lengthB) ==
  [low |-> FALSE, pc |-> "one", first |-> FALSE,
   work |-> Store(work, baseB + lengthB - 1, Elem(work, baseA + lengthA - 1)),
   temp |-> SubSeq(work, baseB + 1, baseB + lengthB),
   dest |-> baseB + lengthB - 2, cursorTemp |-> lengthB - 1,
   cursor |-> baseA + lengthA - 2, baseA |-> baseA,
   lengthA |-> lengthA - 1, lengthB |-> lengthB,
   minGallop |-> minGallop, nofWinsA |-> 0, nofWinsB |-> 0]

\* the labels Succeed and CopyB of MergeLow: what is left of temp, or what
\* is left of B and then the last element of A, ends the merge
succeedLow(st) ==
  [st EXCEPT !.pc = "done",
             !.work = IF st.lengthA > 0
                      THEN Copy(st.temp, st.cursorTemp, st.work, st.dest, st.lengthA)
                      ELSE st.work]
copyBLow(st) ==
  [st EXCEPT !.pc = "done",
             !.work = Store(Copy(st.work, st.cursor, st.work, st.dest, st.lengthB),
                            st.dest + st.lengthB, Elem(st.temp, st.cursorTemp))]

\* the labels Succeed and CopyA of MergeHigh
succeedHigh(st) ==
  [st EXCEPT !.pc = "done",
             !.work = IF st.lengthB > 0
                      THEN Copy(st.temp, 0, st.work, st.dest - (st.lengthB - 1), st.lengthB)
                      ELSE st.work]
copyAHigh(st) ==
  [st EXCEPT !.pc = "done",
             !.work = Store(Copy(st.work, st.cursor - st.lengthA + 1, st.work,
                                 st.dest - st.lengthA + 1, st.lengthA),
                            st.dest - st.lengthA, Elem(st.temp, st.cursorTemp))]

\* one element moves to dest: in MergeLow the next of B or of temp (A), in
\* MergeHigh the last of A or of temp (B)
takeBLow(st) ==
  [st EXCEPT !.work = Store(st.work, st.dest, Elem(st.work, st.cursor)),
             !.dest = @ + 1, !.cursor = @ + 1, !.lengthB = @ - 1]
takeALow(st) ==
  [st EXCEPT !.work = Store(st.work, st.dest, Elem(st.temp, st.cursorTemp)),
             !.dest = @ + 1, !.cursorTemp = @ + 1, !.lengthA = @ - 1]
takeAHigh(st) ==
  [st EXCEPT !.work = Store(st.work, st.dest, Elem(st.work, st.cursor)),
             !.dest = @ - 1, !.cursor = @ - 1, !.lengthA = @ - 1]
takeBHigh(st) ==
  [st EXCEPT !.work = Store(st.work, st.dest, Elem(st.temp, st.cursorTemp)),
             !.dest = @ - 1, !.cursorTemp = @ - 1, !.lengthB = @ - 1]

\* a run has won minGallop times in a row: the merge starts to gallop
startGallop(st) ==
  [st EXCEPT !.pc = "gallop", !.minGallop = @ + 1, !.first = TRUE]

\* one pass of the loop that merges element by element: the winner's wins
\* in a row are counted, and the merge ends, starts to gallop, or goes on
oneLow(st) ==
  IF comparePlans(Elem(st.work, st.cursor), Elem(st.temp, st.cursorTemp)) < 0
  THEN LET t == [takeBLow(st) EXCEPT !.nofWinsB = @ + 1, !.nofWinsA = 0]
       IN IF t.lengthB = 0 THEN succeedLow(t)
          ELSE IF t.nofWinsB >= t.minGallop THEN startGallop(t)
          ELSE t
  ELSE LET t == [takeALow(st) EXCEPT !.nofWinsA = @ + 1, !.nofWinsB = 0]
       IN IF t.lengthA = 1 THEN copyBLow(t)
          ELSE IF t.nofWinsA >= t.minGallop THEN startGallop(t)
          ELSE t
oneHigh(st) ==
  IF comparePlans(Elem(st.temp, st.cursorTemp), Elem(st.work, st.cursor)) < 0
  THEN LET t == [takeAHigh(st) EXCEPT !.nofWinsA = @ + 1, !.nofWinsB = 0]
       IN IF t.lengthA = 0 THEN succeedHigh(t)
          ELSE IF t.nofWinsA >= t.minGallop THEN startGallop(t)
          ELSE t
  ELSE LET t == [takeBHigh(st) EXCEPT !.nofWinsB = @ + 1, !.nofWinsA = 0]
       IN IF t.lengthB = 1 THEN copyAHigh(t)
          ELSE IF t.nofWinsB >= t.minGallop THEN startGallop(t)
          ELSE t

\* One pass of the galloping loop of MergeLow, last stage first.  The
\* elements of A that go before the next element of B are moved at once,
\* then that element of B; then the elements of B that go before the next
\* element of A, then that element of A.  A run that is used up, or A down
\* to its last element, ends the merge.
afterBLow(st) ==
  LET t == takeALow(st)
  IN IF st.nofWinsB > 0 /\ st.lengthB = 0 THEN succeedLow(st)
     ELSE IF t.lengthA = 1 THEN copyBLow(t)
     ELSE t
moveBLow(st, winsB) ==
  [st EXCEPT !.nofWinsB = winsB,
             !.work = Copy(st.work, st.cursor, st.work, st.dest, winsB),
             !.dest = @ + winsB, !.cursor = @ + winsB, !.lengthB = @ - winsB]
gallopBLow(st) ==
  IF st.lengthB = 0 THEN succeedLow(st)
  ELSE afterBLow(moveBLow(st, GallopLeft(st.work, Elem(st.temp, st.cursorTemp),
                                         st.cursor, st.lengthB, 0)))
afterALow(st) ==
  IF st.nofWinsA > 0 /\ st.lengthA = 1 THEN copyBLow(st)
  ELSE IF st.nofWinsA > 0 /\ st.lengthA = 0 THEN succeedLow(st)
  ELSE gallopBLow(takeBLow(st))
moveALow(st, winsA) ==
  [st EXCEPT !.nofWinsA = winsA,
             !.work = Copy(st.temp, st.cursorTemp, st.work, st.dest, winsA),
             !.dest = @ + winsA, !.cursorTemp = @ + winsA, !.lengthA = @ - winsA]
gallopLow(st) ==
  afterALow(moveALow(st, GallopRight(st.temp, Elem(st.work, st.cursor),
                                     st.cursorTemp, st.lengthA, 0)))

\* the same pass of MergeHigh, which moves the elements that go after the
\* last element of the other run, from the back
afterBHigh(st) ==
  LET t == takeAHigh(st)
  IN IF st.nofWinsB > 0 /\ st.lengthB = 1 THEN copyAHigh(st)
     ELSE IF st.nofWinsB > 0 /\ st.lengthB = 0 THEN succeedHigh(st)
     ELSE IF t.lengthA = 0 THEN succeedHigh(t)
     ELSE t
moveBHigh(st, winsB) ==
  [st EXCEPT !.nofWinsB = winsB,
             !.work = Copy(st.temp, st.cursorTemp - winsB + 1, st.work,
                           st.dest - winsB + 1, winsB),
             !.dest = @ - winsB, !.cursorTemp = @ - winsB, !.lengthB = @ - winsB]
gallopBHigh(st) ==
  IF st.lengthB = 1 THEN copyAHigh(st)
  ELSE afterBHigh(moveBHigh(st, st.lengthB - GallopLeft(st.temp, Elem(st.work, st.cursor),
                                                        0, st.lengthB, st.lengthB - 1)))
afterAHigh(st) ==
  IF st.nofWinsA > 0 /\ st.lengthA = 0 THEN succeedHigh(st)
  ELSE gallopBHigh(takeBHigh(st))
moveAHigh(st, winsA) ==
  [st EXCEPT !.nofWinsA = winsA,
             !.work = Copy(st.work, st.cursor - winsA + 1, st.work,
                           st.dest - winsA + 1, winsA),
             !.dest = @ - winsA, !.cursor = @ - winsA, !.lengthA = @ - winsA]
gallopHigh(st) ==
  afterAHigh(moveAHigh(st, st.lengthA - GallopRight(st.work, Elem(st.temp, st.cursorTemp),
                                                    st.baseA, st.lengthA, st.lengthA - 1)))

\* one pass of the loop the merge is in.  The galloping loop goes on while
\* a run won kMinGallopWins elements in the last pass, and galloping gets
\* easier to start with every pass; when the loop is left the merge goes
\* element by element again and galloping gets harder to start
mergeStep(st) ==
  LET s0 == [st EXCEPT !.first = FALSE, !.minGallop = IF @ - 1 > 1 THEN @ - 1 ELSE 1]
  IN IF st.pc = "one" THEN IF st.low THEN oneLow(st) ELSE oneHigh(st)
     ELSE IF ~(st.nofWinsA >= kMinGallopWins \/ st.nofWinsB >= kMinGallopWins \/ st.first)
     THEN [st EXCEPT !.pc = "one", !.minGallop = @ + 1, !.nofWinsA = 0, !.nofWinsB = 0]
     ELSE IF st.low THEN gallopLow(s0)
     ELSE gallopHigh(s0)

\* the merge after at most k passes, or at its end if that comes first
RECURSIVE mergeSteps(_, _)
mergeSteps(st, k) ==
  IF st.pc = "done" \/ k = 0 THEN st
  ELSE IF k = 1 THEN mergeStep(st)
  ELSE mergeSteps(mergeSteps(st, k \div 2), k - (k \div 2))

\* the merge of MergeLow or MergeHigh run to its end; every two passes place
\* an element, so twice the number of elements is passes enough
merged(st) ==
  mergeSteps(IF st.low
             THEN IF st.lengthB = 0 THEN succeedLow(st)
                  ELSE IF st.lengthA = 1 THEN copyBLow(st)
                  ELSE st
             ELSE IF st.lengthA = 0 THEN succeedHigh(st)
                  ELSE IF st.lengthB = 1 THEN copyAHigh(st)
                  ELSE st,
             2 * (st.lengthA + st.lengthB))

\* The sort state: the work array, the pending runs, each the base and the
\* length of a sorted stretch of work, the wins needed to gallop, and the
\* index low where the next run starts.
\* The pending runs i and i + 1 are merged into one, here replaced by runs:
\* the elements of A that go before the first of B (trimRuns) and those of
\* B that go after the last of A (mergeRuns) stay where they are
mergeRuns(ss, runs, baseA, lengthA, baseB, lengthB) ==
  LET end == merged(IF lengthA <= lengthB
                    THEN MergeLow(ss.work, ss.minGallop, baseA, lengthA, baseB, lengthB)
                    ELSE MergeHigh(ss.work, ss.minGallop, baseA, lengthA, baseB, lengthB))
  IN IF lengthA = 0 \/ lengthB = 0 THEN [ss EXCEPT !.runs = runs]
     ELSE [ss EXCEPT !.work = end.work, !.runs = runs, !.minGallop = end.minGallop]
trimRuns(ss, runs, a, b, k) ==
  mergeRuns(ss, runs, a.base + k, a.length - k, b.base,
            GallopLeft(ss.work, Elem(ss.work, a.base + a.length - 1),
                       b.base, b.length, b.length - 1))
MergeAt(ss, i) ==
  LET a == ss.runs[i + 1]
      b == ss.runs[i + 2]
  IN trimRuns(ss,
              SubSeq(ss.runs, 1, i)
                \o <<[base |-> a.base, length |-> a.length + b.length]>>
                \o SubSeq(ss.runs, i + 3, Len(ss.runs)),
              a, b, GallopRight(ss.work, Elem(ss.work, b.base), a.base, a.length, 0))

\* the length of pending run n, and whether run n - 2 is longer than the
\* runs n - 1 and n together
RunLength(ss, n) == ss.runs[n + 1].length
RunInvariantEstablished(ss, n) ==
  n < 2 \/ RunLength(ss, n - 2) > RunLength(ss, n - 1) + RunLength(ss, n)

\* pending runs are merged until each is longer than the two after it
\* together and than the one after it
RECURSIVE MergeCollapse(_)
MergeCollapse(ss) ==
  LET n == Len(ss.runs) - 2
      at == IF ~RunInvariantEstablished(ss, n + 1) \/ ~RunInvariantEstablished(ss, n)
            THEN IF RunLength(ss, n - 1) < RunLength(ss, n + 1) THEN n - 1 ELSE n
            ELSE IF RunLength(ss, n) <= RunLength(ss, n + 1) THEN n
            ELSE -1
  IN IF Len(ss.runs) <= 1 \/ at < 0 THEN ss ELSE MergeCollapse(MergeAt(ss, at))

\* all pending runs are merged into one
RECURSIVE MergeForceCollapse(_)
MergeForceCollapse(ss) ==
  LET n == Len(ss.runs) - 2
  IN IF Len(ss.runs) <= 1 THEN ss
     ELSE MergeForceCollapse(
            MergeAt(ss, IF n > 0 /\ RunLength(ss, n - 1) < RunLength(ss, n + 1)
                        THEN n - 1 ELSE n))

\* the least length of a run: the length of the array below 64, else its
\* six leading binary digits, plus one if a digit after them is 1
RECURSIVE ComputeMinRunLength(_, _)
ComputeMinRunLength(n, r) ==
  IF n >= 64 THEN ComputeMinRunLength(n \div 2, IF n % 2 = 1 THEN 1 ELSE r)
  ELSE n + r

\* the run found at ss.low, made minRunLength long by binary insertion when
\* shorter (or as long as what remains), is pushed on the pending runs
pushRun(ss, minRunLength, run) ==
  LET remaining == Len(ss.work) - ss.low
      forcedRunLength == IF minRunLength < remaining THEN minRunLength ELSE remaining
      short == run.length < minRunLength
      currentRunLength == IF short THEN forcedRunLength ELSE run.length
  IN [work |-> IF short
               THEN BinaryInsertionSort(run.work, ss.low, ss.low + run.length,
                                        ss.low + forcedRunLength)
               ELSE run.work,
      runs |-> Append(ss.runs, [base |-> ss.low, length |-> currentRunLength]),
      minGallop |-> ss.minGallop,
      low |-> ss.low + currentRunLength]

\* run after run is found, pushed and merged with the pending runs as far
\* as their lengths demand
RECURSIVE sortRuns(_, _)
sortRuns(ss, minRunLength) ==
  IF ss.low = Len(ss.work) THEN ss
  ELSE sortRuns(
         MergeCollapse(
           pushRun(ss, minRunLength, CountAndMakeRun(ss.work, ss.low, Len(ss.work)))),
         minRunLength)

\* Array.prototype.sort of an array without holes or undefined elements:
\* the elements are copied to a work array, sorted there and copied back
sortArray(arr) ==
  IF Len(arr) < 2 THEN arr
  ELSE MergeForceCollapse(
         sortRuns([work |-> SubSeq(arr, 1, Len(arr)), runs |-> <<>>,
                   minGallop |-> kMinGallopWins, low |-> 0],
                  ComputeMinRunLength(Len(arr), 0))).work

\* the plans of the sorted array of plans paired with numbers
withoutRates(sorted) == [i \in 1..Len(sorted) |-> sorted[i].ref]

\* line 149: row.plans.sort((a, b) => parseFloat(a.rate) - parseFloat(b.rate))
sortByRate(plans) ==
  withoutRates(sortArray([i \in 1..Len(plans) |->
                 [ref |-> plans[i], rate |-> parseFloat(RateOf(plans[i]))]]))

\* lines 152-157: row.zips.every(...) collecting the rate areas seen so far
RECURSIVE singleRateAreaFrom(_, _, _)
singleRateAreaFrom(zips, i, rateAreas) ==
  IF i > Len(zips) THEN TRUE
  ELSE LET ra == Get(Deref(zips[i]), StrRateArea)
           seen == IF \E k \in 1..Len(rateAreas) : rateAreas[k] = ra
                   THEN rateAreas
                   ELSE Append(rateAreas, ra)
       IN IF Len(seen) = 1 THEN singleRateAreaFrom(zips, i + 1, seen) ELSE FALSE

isSingleRateArea(zips) == singleRateAreaFrom(zips, 1, <<>>)

\* the sheetQueries of lines 139-143; each sheet is the object its parser
\* resolved with
RunSteps ==
  << JoinStep("slcsp", Given(<<StrZipcode>>), StrSlcsp),
     JoinStep("zips", Given(<<StrState, StrRateArea>>), StrZips),
     JoinStep("plans", Absent, StrPlans) >>

\* Promise.all resolves once every parse has resolved: run() continues after
\* the await and calls mergeSheets (lines 132-139)
RunAwait ==
  /\ rpc = "await"
  /\ proc = "running"
  /\ \A p \in DOMAIN src : promise[p] = "resolved"
  /\ rpc' = "merge"
  /\ steps' = RunSteps
  /\ mpc' = "reduce"
  /\ mi' = 1
  /\ acc' = NewAcc
  /\ heap' = <<>>
  /\ prevSheet' = 0
  /\ UNCHANGED <<returned, ri, out, sheet, filterVars, parseVars>>

\* line 160: the rate of the second plan, when there is one and the zips
\* lie in a single rate area, else the empty string
slcspRate(isSingle, plans) ==
  IF isSingle /\ Len(plans) >= 2 THEN toFixed2(parseFloat(RateOf(plans[2]))) ELSE <<>>

\* one call of the map callback of lines 146-163 on merged row ri: row.plans
\* is replaced by its deduplicated, sorted copy and row.slcsp.rate is set,
\* from the plans the row then has, on the record row.slcsp refers to, the
\* record of the slcsp table itself
RateRow ==
  /\ rpc = "map"
  /\ ri <= Len(acc.rows)
  /\ LET id == acc.rows[ri]
         row == heap[id]
         seed == Get(row, StrSlcsp).refs[1]
     IN /\ heap' = [heap EXCEPT ![id] =
                      Put(row, StrPlans,
                          List(sortByRate(dedupeRates(Get(row, StrPlans).refs))))]
        /\ sheet' = [sheet EXCEPT ![seed[1]].rows[seed[2]] =
                       Put(@, StrRate,
                           slcspRate(isSingleRateArea(Get(row, StrZips).refs),
                                     Get(heap'[id], StrPlans).refs))]
  /\ ri' = ri + 1
  /\ UNCHANGED <<rpc, out, steps, mpc, mi, acc, prevSheet, returned,
                 filterVars, parseVars>>

\* the line written for one merged row (line 168)
OutLine(obj) ==
  LET rec == Deref(Get(obj, StrSlcsp).refs[1])
      rate == Get(rec, StrRate)
  IN ToStr(Get(rec, StrZipcode)) \o <<",">>
       \o (IF rate # Undefined /\ rate # <<>> THEN toFixed2(parseFloat(rate)) ELSE <<>>)
       \o EOL

\* lines 167-168: the header line and one line per merged row are written
WriteOut ==
  /\ rpc = "map"
  /\ ri > Len(acc.rows)
  /\ out' = <<join(sheet["slcsp"].headers) \o EOL>>
              \o [i \in 1..Len(acc.rows) |-> OutLine(heap[acc.rows[i]])]
  /\ rpc' = "done"
  /\ proc' = "done"
  /\ UNCHANGED <<ri, sheet, mergeVars, filterVars, src, filt, pos, promise,
                 resolvedWith>>

----------------------------------------------------------------------------
(* Specification of the query filter as a pure function *)

\* bounds of the filter sets the filter specification draws
MaxPairs == 2
MaxGroups == 2

\* sequences over S of length at most n
SeqUpTo(S, n) == UNION {[1..k -> S] : k \in 0..n}

FilterPairs ==
  { <<<<"a">>, <<"1">>>>, <<<<"a">>, <<"2">>>>, <<<<"b">>, <<"1">>>> }
FilterGroups == SeqUpTo(FilterPairs, MaxPairs)
FilterSets == SeqUpTo(FilterGroups, MaxGroups)

\* records over the columns a and b; a column may be missing, and a value
\* may differ from a filter's only by a trailing blank
FilterValues == { <<"1">>, <<"2">>, <<"1", " ">> }
FilterRecords ==
  { ra \o rb : ra \in {<<>>} \cup { << <<<<"a">>, v>> >> : v \in FilterValues },
               rb \in {<<>>} \cup { << <<<<"b">>, v>> >> : v \in FilterValues } }

FilterInit ==
  /\ fArg \in {Absent} \cup { Given(fs) : fs \in FilterSets }
  /\ fRow \in FilterRecords
  /\ fOp = "none"
  /\ fResult = FALSE
  /\ ParseIdle /\ sheet = <<>> /\ MergeIdle /\ RunIdle

\* createQueryFilter(filterSets)(row) for a supplied filterSets
ApplyQueryFilter ==
  /\ fOp = "none"
  /\ fArg.given
  /\ fOp' = "createQueryFilter"
  /\ fResult' = createQueryFilter(fArg.val, fRow)
  /\ UNCHANGED <<fArg, fRow, parseVars, sheet, mergeVars, runVars>>

\* the predicate parseCSV builds (line 24) applied through filterRowObj, as
\* the 'line' handler does: fResult tells whether the row is kept
ApplyParseFilter ==
  /\ fOp = "none"
  /\ fOp' = "parseCSV"
  /\ fResult' = filterRowObj(fArg, fRow).given
  /\ UNCHANGED <<fArg, fRow, parseVars, sheet, mergeVars, runVars>>

FilterNext == ApplyQueryFilter \/ ApplyParseFilter

SpecFilter == FilterInit /\ [][FilterNext]_vars

----------------------------------------------------------------------------
(* Specification of concurrent parseCSV operations *)

\* bound: the number of lines a source holds
MaxLines == 3

Parsers == {"p1", "p2"}

\* the lines a source may hold: "a,b", "\fb " (a form feed before, a blank
\* after) and "b,1," (an array index as a column name)
SourceLines ==
  { <<"a", ",", "b">>, <<"\f", "b", " ">>, <<"b", ",", "1", ",">> }

\* p1 parses without a filter, p2 keeps the rows whose column a is "b"
ParserFilter(p) ==
  IF p = "p1" THEN Absent ELSE Given(createSimpleFilterSets(<<"a">>, <<"b">>))

ParseInit ==
  /\ src \in [Parsers -> { File(ls) : ls \in SeqUpTo(SourceLines, MaxLines) }]
  /\ filt = [p \in Parsers |-> ParserFilter(p)]
  /\ pos = [p \in Parsers |-> 0]
  /\ sheet = [p \in Parsers |-> NewSheet]
  /\ promise = [p \in Parsers |-> "pending"]
  /\ resolvedWith = [p \in Parsers |-> NewSheet]
  /\ proc = "running"
  /\ FilterIdle /\ MergeIdle /\ RunIdle

ParseNext == \E p \in DOMAIN src : Line(p) \/ Close(p)

SpecParse == ParseInit /\ [][ParseNext]_vars

----------------------------------------------------------------------------
(* Specification of mergeSheets called, and called again, on one list of
   Join Steps over three tables x, y, z: y is joined to x on k, z is joined
   to y on k and s.  Step names are distinct identifiers. *)

\* bound: the number of rows of a table
MaxRows == 2

RecK(v) == << <<<<"k">>, v>> >>
RecS(v) == << <<<<"s">>, v>> >>
SeedRecords == { RecK(<<"a">>), <<>> }
MidRecords ==
  { RecK(<<"a">>) \o RecS(<<"a">>), RecK(<<"a">>) \o RecS(<<"b">>),
    RecS(<<"a">>), RecK(<<"a">>) }
LastRecords == { RecK(<<"a">>) \o RecS(<<"b">>), RecK(<<"a">>) }

Table(headers, rows) == [headers |-> headers, rows |-> rows]

\* the first n of the three Join Steps; the last one carries no joins
StepList(n) ==
  [k \in 1..n |->
     JoinStep(<<"x", "y", "z">>[k],
              IF k < n
              THEN Given(<< << <<"k">> >>, << <<"k">>, <<"s">> >> >>[k])
              ELSE Absent,
              << <<"x">>, <<"y">>, <<"z">> >>[k])]

\* the same Join Steps with the joins property left out of every step
StepListNoJoins(n) ==
  [k \in 1..n |-> [StepList(n)[k] EXCEPT !.joins = Absent]]

MergeInit ==
  /\ \E xs \in SeqUpTo(SeedRecords, MaxRows), ys \in SeqUpTo(MidRecords, MaxRows),
        zs \in SeqUpTo(LastRecords, MaxRows) :
       sheet = [t \in {"x", "y", "z"} |->
                  IF t = "x" THEN Table(<< <<"k">> >>, xs)
                  ELSE IF t = "y" THEN Table(<< <<"k">>, <<"s">> >>, ys)
                  ELSE Table(<< <<"k">>, <<"s">> >>, zs)]
  /\ steps \in { StepList(n) : n \in 1..3 } \cup { StepListNoJoins(n) : n \in 2..3 }
  /\ mpc = "idle" /\ mi = 0 /\ acc = NewAcc /\ heap = <<>>
  /\ prevSheet = 0 /\ returned = Absent
  /\ FilterIdle /\ ParseIdle /\ RunIdle

MergeNext == MergeBegin \/ MergeSeed \/ MergeJoin \/ MergeReturn

SpecMerge == MergeInit /\ [][MergeNext]_vars

----------------------------------------------------------------------------
(* Specification of run(): three concurrent parses, the merge, the rate
   selection and the output *)

SlcspFiles ==
  { Missing, File(<<SlcspHeader, SlcspZip1>>),
    File(<<SlcspHeader, SlcspZip1, SlcspZip2>>) }
PlansFiles ==
  { Missing, File(<<PlansHeader, PlanSilverHigh, PlanSilverLow>>),
    File(<<PlansHeader, PlanSilverHigh, PlanGold, PlanSilverSame>>),
    File(<<PlansHeader, PlanSilverHigh, PlanSilverLow, PlanSilverSame>>) }
ZipsFiles ==
  { Missing, File(<<ZipsHeader, ZipArea3>>),
    File(<<ZipsHeader, ZipArea3, ZipArea4>>),
    File(<<ZipsHeader, ZipOther, ZipArea3>>) }

RunParsers == {"slcsp", "plans", "zips"}

\* lines 133-135: only plans is parsed with a filter
RunFilter(p) ==
  IF p = "plans"
  THEN Given(createSimpleFilterSets(StrMetalLevel, StrSilver))
  ELSE Absent

RunInit ==
  /\ \E a \in SlcspFiles, b \in PlansFiles, c \in ZipsFiles :
       src = [p \in RunParsers |->
                IF p = "slcsp" THEN a ELSE IF p = "plans" THEN b ELSE c]
  /\ filt = [p \in RunParsers |-> RunFilter(p)]
  /\ pos = [p \in RunParsers |-> 0]
  /\ sheet = [p \in RunParsers |-> NewSheet]
  /\ promise = [p \in RunParsers |-> "pending"]
  /\ resolvedWith = [p \in RunParsers |-> NewSheet]
  /\ proc = "running"
  /\ rpc = "await" /\ ri = 0 /\ out = <<>>
  /\ FilterIdle /\ MergeIdle

RunNext ==
  \/ \E p \in DOMAIN src : Line(p) \/ Close(p) \/ OpenError(p)
  \/ RunAwait
  \/ MergeSeed
  \/ MergeJoin
  \/ MergeReturn
  \/ RateRow
  \/ WriteOut

SpecRun == RunInit /\ [][RunNext]_vars

----------------------------------------------------------------------------
(* Claims about the query filter and the parser *)

\* a record satisfies a filter set description: some group has all its
\* (column, value) pairs equal to the record's values
Satisfies(fs, r) ==
  \E g \in 1..Len(fs) : \A k \in 1..Len(fs[g]) : Get(r, fs[g][k][1]) = fs[g][k][2]

\* C1: createQueryFilter(fs)(r) is true exactly when fs has a conjunction
\* group all of whose (column, value) pairs equal r's values exactly, and
\* createQueryFilter([]) is false for every record.
C1_FilterIsSomeGroupEveryPair ==
  fOp = "createQueryFilter" =>
    /\ fResult <=> Satisfies(fArg.val, fRow)
    /\ fArg.val = <<>> => ~fResult

\* the second of two groups accepts a record the first rejects, by two pairs
C1_Witness ==
  /\ fOp = "createQueryFilter" /\ fResult
  /\ Len(fArg.val) = 2 /\ Len(fArg.val[2]) = 2
  /\ ~Satisfies(<<fArg.val[1]>>, fRow)

\* the sheet parseCSV builds from the lines of a source, stated on the whole
\* list of lines: the fields of the first line, and the records of the other
\* lines that satisfy the filter description, in line order
Fields(line) == split(trim(line))
ExpectedSheet(lines, arg) ==
  LET headers == IF lines = <<>> THEN <<>> ELSE Fields(lines[1])
      recs == [i \in 1..(Len(lines) - 1) |->
                 convertRowToObj(headers, Fields(lines[i + 1]))]
      Kept(r) == ~arg.given \/ Satisfies(arg.val, r)
  IN [headers |-> headers, rows |-> SelectSeq(recs, Kept)]

\* C2: under every interleaving of the 'line' and 'close' events of
\* concurrent parseCSV operations, each operation's sheet holds exactly what
\* its own lines delivered so far give, and it resolves only after its own
\* source is closed, with headers = the first line's fields and rows = the
\* records of the later lines that pass its predicate, in line order.
C2_ParsersIndependentAndOrdered ==
  \A p \in DOMAIN src :
    /\ sheet[p] = ExpectedSheet(SubSeq(src[p].lines, 1, pos[p]), filt[p])
    /\ promise[p] = "resolved" =>
         /\ pos[p] = Len(src[p].lines)
         /\ resolvedWith[p] = ExpectedSheet(src[p].lines, filt[p])

\* p1 has resolved with two rows in line order while p2, which dropped a
\* row and kept one, is still reading
C2_Witness ==
  /\ DOMAIN src = Parsers
  /\ promise["p1"] = "resolved" /\ Len(resolvedWith["p1"].rows) = 2
  /\ resolvedWith["p1"].rows[1] # resolvedWith["p1"].rows[2]
  /\ promise["p2"] = "pending" /\ pos["p2"] = 3 /\ Len(sheet["p2"].rows) = 1

\* C7 as claimed: every filterSets value that is supplied, the empty list
\* and a list holding an empty group included, rejects some record.
C7_EverySuppliedFilterRejects ==
  (fOp # "none" /\ fArg.given) =>
    \E r \in FilterRecords :
      ~createQueryFilter(fArg.val, r) /\ ~filterRowObj(fArg, r).given

HasEmptyGroup(fs) == \E g \in 1..Len(fs) : fs[g] = <<>>

\* C7 amended: parseCSV keeps every row when filterSets is absent; every
\* supplied filterSets without an empty conjunction group (the empty list
\* included) rejects some record; a supplied filterSets holding an empty
\* conjunction group accepts every record.
C7_SuppliedFilterRejectsUnlessEmptyGroup ==
  /\ (fOp = "parseCSV" /\ ~fArg.given) => fResult
  /\ (fArg.given /\ ~HasEmptyGroup(fArg.val)) =>
       \E r \in FilterRecords :
         ~createQueryFilter(fArg.val, r) /\ ~filterRowObj(fArg, r).given
  /\ (fOp # "none" /\ fArg.given /\ HasEmptyGroup(fArg.val)) => fResult

\* parseCSV's predicate, built from the supplied empty list, rejected a record
C7_Witness ==
  fOp = "parseCSV" /\ fArg.given /\ fArg.val = <<>> /\ ~fResult

\* C8 as claimed: every record of a parsed table has exactly the table's
\* headers as its keys, in header order, whatever the line's field count.
C8_RecordKeysEqualHeaders ==
  \A p \in DOMAIN src :
    \A i \in 1..Len(sheet[p].rows) : Keys(sheet[p].rows[i]) = sheet[p].headers

----------------------------------------------------------------------------
(* Claims about the sheet merger *)

\* what merged row object obj holds under the name of step k
Held(obj, k) == Get(obj, steps[k].name)

\* the records obj holds under the name of step k
HeldRecords(obj, k) ==
  { Deref(Held(obj, k).refs[j]) : j \in 1..Len(Held(obj, k).refs) }

\* records r and q have the same value, or both none, in every column of cols
Agree(r, q, cols) == \A c \in 1..Len(cols) : Get(r, cols[c]) = Get(q, cols[c])

\* the rows of step k's table that agree with a record obj holds for step k-1
MatchIdx(obj, k) ==
  { i \in 1..Len(sheet[steps[k].sheet].rows) :
      \E q \in HeldRecords(obj, k - 1) :
        Agree(sheet[steps[k].sheet].rows[i], q, steps[k - 1].joins.val) }

\* C3: for every processed step k >= 2 (the first join onwards) and every
\* merged row, the row holds under step k's name exactly the records of step
\* k's table that agree on all join columns of the previous step with at
\* least one record the row holds under the previous step's name, in table
\* row order.
C3_JoinListIsMatchesInTableOrder ==
  \A i \in 1..Len(acc.rows) : \A k \in 2..(mi - 1) :
    LET v == Held(heap[acc.rows[i]], k)
    IN /\ v.isArray
       /\ \A j \in 1..Len(v.refs) : v.refs[j][1] = steps[k].sheet
       /\ { v.refs[j][2] : j \in 1..Len(v.refs) } = MatchIdx(heap[acc.rows[i]], k)
       /\ \A j1, j2 \in 1..Len(v.refs) : j1 < j2 => v.refs[j1][2] < v.refs[j2][2]

\* after three steps one row has two matches in y and a match in z that
\* agrees only with the second of them, and another row has no match in y
\* and none in z
C3_Witness ==
  /\ mi = 4
  /\ \E i \in 1..Len(acc.rows) :
       LET obj == heap[acc.rows[i]]
       IN /\ Len(Held(obj, 2).refs) = 2
          /\ Held(obj, 3).refs # <<>>
          /\ \A r \in HeldRecords(obj, 3) :
               /\ ~Agree(r, Deref(Held(obj, 2).refs[1]), steps[2].joins.val)
               /\ Agree(r, Deref(Held(obj, 2).refs[2]), steps[2].joins.val)
  /\ \E i \in 1..Len(acc.rows) :
       Held(heap[acc.rows[i]], 2).refs = <<>> /\ Held(heap[acc.rows[i]], 3).refs = <<>>

\* C4: once at least one step is processed, the merged sheet has one row per
\* record of step 0's table, in order, the i-th row holding the i-th seed
\* record itself under step 0's name, and every row holds a list (possibly
\* empty) under the name of every later processed step.
C4_OneRowPerSeedRecord ==
  mi >= 2 =>
    /\ Len(acc.rows) = Len(sheet[steps[1].sheet].rows)
    /\ \A i \in 1..Len(acc.rows) :
         /\ Held(heap[acc.rows[i]], 1) = Single(<<steps[1].sheet, i>>)
         /\ { heap[acc.rows[i]][n][1] : n \in 1..Len(heap[acc.rows[i]]) }
              = { steps[k].name : k \in 1..(mi - 1) }
         /\ \A k \in 2..(mi - 1) : Held(heap[acc.rows[i]], k).isArray

\* after three steps the first of two rows has no match in y, the second has
C4_Witness ==
  /\ mi = 4 /\ Len(acc.rows) = 2
  /\ Held(heap[acc.rows[1]], 2).refs = <<>>
  /\ Held(heap[acc.rows[2]], 2).refs # <<>>

\* C6: no step of mergeSheets changes an input table or the list of Join
\* Steps; a reducer call leaves every merged row object made before it as it
\* was and puts only new objects in acc.rows; and a call that returns after
\* an earlier call returns a merged sheet equal to the earlier one.
C6_MergeIdempotentInputsUnchanged ==
  [][/\ sheet' = sheet
     /\ steps' = steps
     /\ (mpc = "reduce" /\ mpc' = "reduce") =>
          /\ Len(heap') >= Len(heap)
          /\ \A id \in 1..Len(heap) : heap'[id] = heap[id]
          /\ \A i \in 1..Len(acc'.rows) : acc'.rows[i] > Len(heap)
     /\ (mpc = "reduce" /\ mpc' = "idle" /\ returned.given) =>
          returned' = returned]_vars

\* a second call over three steps is about to return what the first returned
C6_Witness ==
  /\ returned.given /\ mpc = "reduce" /\ mi = 4
  /\ Len(acc.rows) = 2
  /\ Held(heap[acc.rows[1]], 3).refs # <<>>
  /\ MergedValue = returned.val

\* step k-1 has a join column that none of the records obj holds under step
\* k-1's name has
AbsentJoinColumns(obj, k) ==
  { c \in 1..Len(steps[k - 1].joins.val) :
      /\ HeldRecords(obj, k - 1) # {}
      /\ \A q \in HeldRecords(obj, k - 1) :
           ~HasOwn(q, steps[k - 1].joins.val[c]) }

\* C9 as claimed: when a join column of the previous step is absent from the
\* records a row holds for it, the row's match list for step k is empty
\* whatever step k's table holds.
C9_AbsentJoinColumnGivesNoMatch ==
  \A i \in 1..Len(acc.rows) : \A k \in 2..(mi - 1) :
    AbsentJoinColumns(heap[acc.rows[i]], k) # {} =>
      Held(heap[acc.rows[i]], k).refs = <<>>

\* C9 amended: in that case the step completes and the row's match list
\* holds no record that has a value in the absent column, so it is empty
\* when every record of step k's table has the column; records of step k's
\* table that lack the column as well can be matched.
C9_AbsentJoinColumnMatchesOnlyAbsent ==
  \A i \in 1..Len(acc.rows) : \A k \in 2..(mi - 1) :
    \A c \in AbsentJoinColumns(heap[acc.rows[i]], k) :
      /\ Held(heap[acc.rows[i]], k).isArray
      /\ \A r \in HeldRecords(heap[acc.rows[i]], k) :
           ~HasOwn(r, steps[k - 1].joins.val[c])
      /\ (\A n \in 1..Len(sheet[steps[k].sheet].rows) :
            HasOwn(sheet[steps[k].sheet].rows[n], steps[k - 1].joins.val[c]))
           => Held(heap[acc.rows[i]], k).refs = <<>>

\* a seed record without k was joined with a table y holding a record with k
\* and a record without: only the latter is in the row's list
C9_Witness ==
  /\ mi >= 3
  /\ \E i \in 1..Len(acc.rows) :
       /\ Deref(Held(heap[acc.rows[i]], 1).refs[1]) = <<>>
       /\ Len(sheet["y"].rows) = 2
       /\ HasOwn(sheet["y"].rows[1], <<"k">>)
       /\ Held(heap[acc.rows[i]], 2).refs = << <<"y", 2>> >>

----------------------------------------------------------------------------
(* Claims about the run() pipeline *)

\* C5 as claimed: once the source of a parse has failed to open, that parse's
\* promise is rejected and with it the awaited group of run(), so that the
\* caller of the pipeline receives the error; the merger has not run and
\* nothing was written.
C5_OpenErrorRejectsPipeline ==
  \A p \in DOMAIN src :
    (~src[p].exists /\ proc # "running") =>
      /\ promise[p] = "rejected"
      /\ rpc = "rejected"
      /\ mpc = "idle" /\ out = <<>>

\* C10 as claimed: from the moment a parse has resolved, its table (headers,
\* rows and every record) stays what it resolved with, through the merge and
\* the rate selection.
C10_TablesImmutableAfterParse ==
  \A p \in DOMAIN src : promise[p] = "resolved" => sheet[p] = resolvedWith[p]

====
